---- MODULE Spec2Model ----
(***************************************************************************)
(* A model of the cosmo dependency-injection container                     *)
(* (package cosmo, the variant with scopes, Configure and Get).            *)
(*                                                                         *)
(* Go maps are functions whose DOMAIN is the set of keys present.          *)
(* A reflect.Type is a string naming the type; a reflect.Value holding a   *)
(* constructor is the constructor's name; a reflect.Value holding an       *)
(* instance is a record [ctor, id]: the constructor that produced it and   *)
(* the number of the constructor invocation that produced it, which is     *)
(* the instance's identity.                                                *)
(***************************************************************************)
EXTENDS Integers, Sequences, FiniteSets, TLC

VARIABLES
    providers,       \* Container.providers: map[reflect.Type]Spec
    instances,       \* Container.instances: map[reflect.Type]reflect.Value
    configurations,  \* Container.configurations: map[string]reflect.Type
    serial,          \* number of constructor invocations made so far
    last,            \* the last call on the container: its arguments, result and event log
    hist,            \* per produced type, what happened since its latest registration
    goroutines       \* per goroutine that calls resolve concurrently, its call stack and result

vars == <<providers, instances, configurations, serial, last, hist, goroutines>>

----------------------------------------------------------------------------
(* Bounds *)

\* constructor invocations after which no further call is started
MaxCalls == 3

\* constructor invocations the first resolving call on a container may make:
\* what a resolve of Logger makes when no scope is Singleton
MaxFirst == 4

----------------------------------------------------------------------------
(* Scopes *)

ScopeTransient == 0
ScopeSingleton == 1
Scopes == {ScopeTransient, ScopeSingleton}

----------------------------------------------------------------------------
(* The universe of Go values handed to the container *)

Types == {"Config", "DBService", "Logger"}

Keys == {"DBConfig"}

\* What reflect reports of each value passed as `constructor`:
\* Kind, the parameter types (In) and the result types (Out).
CtorTable ==
    [ newConfig   |-> [Kind |-> "Func",    In |-> <<>>,                      Out |-> <<"Config">>],
      newConfigE  |-> [Kind |-> "Func",    In |-> <<>>,                      Out |-> <<"Config", "error">>],
      newConfigDB |-> [Kind |-> "Func",    In |-> <<"DBService">>,           Out |-> <<"Config">>],
      newDB       |-> [Kind |-> "Func",    In |-> <<"Config">>,              Out |-> <<"DBService">>],
      newLogger   |-> [Kind |-> "Func",    In |-> <<"Config", "DBService">>, Out |-> <<"Logger">>],
      newLogger2  |-> [Kind |-> "Func",    In |-> <<"DBService", "DBService">>, Out |-> <<"Logger">>],
      noOut       |-> [Kind |-> "Func",    In |-> <<>>,                      Out |-> <<>>],
      threeOut    |-> [Kind |-> "Func",    In |-> <<>>,                      Out |-> <<"Config", "Logger", "error">>],
      configValue |-> [Kind |-> "Struct",  In |-> <<>>,                      Out |-> <<>>],
      nilValue    |-> [Kind |-> "Invalid", In |-> <<>>,                      Out |-> <<>>] ]

\* every value passed as `constructor`
AllCtorArgs == DOMAIN CtorTable
\* the constructors of the acyclic dependency graph Logger -> DBService -> Config
CoreCtorArgs == {"newConfig", "newConfigE", "newDB", "newLogger"}
\* the values a registration must reject
BadCtorArgs == {"noOut", "threeOut", "configValue", "nilValue"}

\* What reflect reports of each value passed to Invoke; RetErr: the function
\* itself returns a non-nil error.
FnTable ==
    [ useDB       |-> [Kind |-> "Func",    In |-> <<"DBService">>,           RetErr |-> FALSE],
      useLoggerDB |-> [Kind |-> "Func",    In |-> <<"Logger", "DBService">>, RetErr |-> TRUE],
      configValue |-> [Kind |-> "Struct",  In |-> <<>>,                      RetErr |-> FALSE],
      nilValue    |-> [Kind |-> "Invalid", In |-> <<>>,                      RetErr |-> FALSE] ]

FnArgs == DOMAIN FnTable

\* The struct types whose pointers are passed to Bind: the declared types of
\* their (exported) fields, in declaration order.
StructTable ==
    [ ToBind  |-> <<"DBService">>,
      ToBind3 |-> <<"Config", "Logger", "DBService">> ]

StructArgs == DOMAIN StructTable

\* reflect.Type.Kind, NumIn, In(i), NumOut, Out(i) of a constructor value
Kind(c) == CtorTable[c].Kind
NumIn(c) == Len(CtorTable[c].In)
NumOut(c) == Len(CtorTable[c].Out)

\* the constructors a registration accepts
Ctors == {c \in AllCtorArgs : Kind(c) = "Func" /\ NumOut(c) \in {1, 2}}
CtorsOf(t) == {c \in Ctors : CtorTable[c].Out[1] = t}
\* the constructors that can return a non-nil error
ErrCtors == {c \in Ctors : NumOut(c) = 2}

----------------------------------------------------------------------------
(* Values, errors, maps *)

NoValue == [ctor |-> "", id |-> 0]          \* reflect.Value{} / a field's zero value
NoError == [kind |-> "nil", of |-> ""]      \* a nil error

\* the error does not say which type has no provider
NoProvider_Unnamed(t) == [kind |-> "no provider for type", of |-> ""]
NoProvider(t) == [kind |-> "no provider for type", of |-> t]
CtorError(c) == [kind |-> "constructor error", of |-> c]
NotAFunction == [kind |-> "validation", of |-> "constructor must be a function"]
BadOutputs == [kind |-> "validation", of |-> "constructor must return T or (T, error)"]
InvokeExpectsFunction == [kind |-> "usage", of |-> "invoke expects a function"]

EmptyMap == [x \in {} |-> x]
MapPut(m, k, v) == [x \in (DOMAIN m) \cup {k} |-> IF x = k THEN v ELSE m[x]]

----------------------------------------------------------------------------
(* Events logged by a call on the container, in the order they happen.      *)
(*   "call"     the constructor `by` of `type` was invoked with args; its   *)
(*              outputs were (val, err), err being nil for a constructor    *)
(*              with one output                                             *)
(*   "resolved" resolve(type) returned (val, nil) at recursion depth `depth`*)
(*   "failed"   resolve(type) returned (reflect.Value{}, err) at `depth`    *)
(*   "fn"       Invoke called the function `by` with args                   *)

Event(e, t, by, args, val, err, depth) ==
    [e |-> e, type |-> t, by |-> by, args |-> args, val |-> val, err |-> err, depth |-> depth]

\* The running state of one call on the container: the instance cache, the
\* invocation counter and the log, with the result of the last step.
Start(inst, n) ==
    [kind |-> "ok", val |-> NoValue, err |-> NoError, args |-> <<>>,
     inst |-> inst, serial |-> n, log |-> <<>>]

\* a resolve frame returns (val, nil)
Returned(s, t, val, depth) ==
    [s EXCEPT !.kind = "ok", !.val = val, !.err = NoError,
              !.log = Append(@, Event("resolved", t, "", <<>>, val, NoError, depth))]

\* a resolve frame returns (reflect.Value{}, err)
Failed(s, t, err, depth) ==
    [s EXCEPT !.kind = "err", !.val = NoValue, !.err = err,
              !.log = Append(@, Event("failed", t, "", <<>>, NoValue, err, depth))]

\* The goroutine stack is exhausted (a fatal error in Go): a chain of more
\* than Cardinality(Types) frames that all passed the cache lookup and the
\* provider lookup holds some type twice, and that frame repeats forever.
MaxDepth == Cardinality(Types)

\* a type met again while it is being resolved is reported as an error
Overflow_Detected(s) ==
    [s EXCEPT !.kind = "err", !.val = NoValue,
              !.err = [kind |-> "circular dependency", of |-> ""]]

Overflow(s) == [s EXCEPT !.kind = "overflow", !.val = NoValue, !.err = NoError]

----------------------------------------------------------------------------
(* spec: the produced type and the validation of a constructor *)

spec(constructor) ==
    IF Kind(constructor) = "Invalid"
    THEN \* reflect.ValueOf(nil) is the zero Value: v.Type() panics
         [panic |-> TRUE, t |-> "", v |-> "", err |-> NoError]
    ELSE IF Kind(constructor) # "Func"
    THEN [panic |-> FALSE, t |-> "", v |-> "", err |-> NotAFunction]
    ELSE IF NumOut(constructor) = 0 \/ NumOut(constructor) > 2
    THEN [panic |-> FALSE, t |-> "", v |-> "", err |-> BadOutputs]
    ELSE [panic |-> FALSE, t |-> CtorTable[constructor].Out[1], v |-> constructor, err |-> NoError]

----------------------------------------------------------------------------
(* resolve *)

\* provider.Value.Call(args): invocation number id of constructor c. `fails`
\* is the set of constructors that return a non-nil error during this call on
\* the container. The first output is a value even then.
Call(c, args, id, fails) ==
    IF NumOut(c) = 2
    THEN <<[ctor |-> c, id |-> id], IF c \in fails THEN CtorError(c) ELSE NoError>>
    ELSE <<[ctor |-> c, id |-> id]>>

\* the result is never stored
cacheResult_Never(s, t, provider, result) == s

\* the result is stored whatever the scope
cacheResult_Always(s, t, provider, result) == [s EXCEPT !.inst = MapPut(@, t, result)]

\* the scope test is inverted: the result is stored for Transient providers only
cacheResult_Inverted(s, t, provider, result) ==
    IF provider.Scope # ScopeSingleton
    THEN [s EXCEPT !.inst = MapPut(@, t, result)]
    ELSE s

\* if provider.Scope == ScopeSingleton { c.instances[t] = result }
cacheResult(s, t, provider, result) ==
    IF provider.Scope = ScopeSingleton
    THEN [s EXCEPT !.inst = MapPut(@, t, result)]
    ELSE s

\* the second output is not looked at
isError_Never(out) == FALSE

\* the second output of a two-output constructor is a non-nil error
isError(out) == Len(out) = 2 /\ out[2] # NoError

\* the first output is stored before the second output is tested
construct_CacheThenCheck(s, t, provider, fails, depth) ==
    LET out == Call(provider.Value, s.args, s.serial + 1, fails)
        called == [s EXCEPT !.serial = @ + 1,
                            !.log = Append(@, Event("call", t, provider.Value, s.args,
                                                    out[1],
                                                    IF Len(out) = 2 THEN out[2] ELSE NoError,
                                                    depth))]
        stored == cacheResult(called, t, provider, out[1])
    IN  IF isError(out)
        THEN Failed(stored, t, out[2], depth)
        ELSE Returned(stored, t, out[1], depth)

\* the constructor has been called with the resolved args: log the call,
\* propagate its error or take (and cache) its first output
construct(s, t, provider, fails, depth) ==
    LET out == Call(provider.Value, s.args, s.serial + 1, fails)
        called == [s EXCEPT !.serial = @ + 1,
                            !.log = Append(@, Event("call", t, provider.Value, s.args,
                                                    out[1],
                                                    IF Len(out) = 2 THEN out[2] ELSE NoError,
                                                    depth))]
    IN  IF isError(out)
        THEN Failed(called, t, out[2], depth)
        ELSE Returned(cacheResult(called, t, provider, out[1]), t, out[1], depth)

\* the cache is never consulted
cached_Never(s, t) == FALSE

\* inst, ok := c.instances[t]
cached(s, t) == t \in DOMAIN s.inst

RECURSIVE resolve(_, _, _, _), resolveArgs(_, _, _, _, _, _)

RECURSIVE resolveArgs_IgnoreError(_, _, _, _, _, _)

\* val, _ := c.resolve(argType): the error of a parameter is dropped and the
\* loop goes on with the zero Value
resolveArgs_IgnoreError(in, i, args, s, fails, depth) ==
    IF i > Len(in)
    THEN [s EXCEPT !.kind = "ok", !.args = args]
    ELSE LET r == resolve(in[i], s, fails, depth)
         IN  IF r.kind = "overflow"
             THEN r
             ELSE resolveArgs_IgnoreError(in, i + 1, Append(args, r.val), r, fails, depth)

\* the loop over the constructor's parameter types In(i), i = 1..NumIn
resolveArgs(in, i, args, s, fails, depth) ==
    IF i > Len(in)
    THEN [s EXCEPT !.kind = "ok", !.args = args]
    ELSE LET r == resolve(in[i], s, fails, depth)
         IN  IF r.kind # "ok"
             THEN r
             ELSE resolveArgs(in, i + 1, Append(args, r.val), r, fails, depth)

resolve(t, s, fails, depth) ==
    IF cached(s, t)
    THEN Returned(s, t, s.inst[t], depth)
    ELSE IF t \notin DOMAIN providers
    THEN Failed(s, t, NoProvider(t), depth)
    ELSE IF depth >= MaxDepth
    THEN Overflow(s)
    ELSE LET provider == providers[t]
             a == resolveArgs(CtorTable[provider.Value].In, 1, <<>>, s, fails, depth + 1)
         IN  IF a.kind = "overflow"
             THEN a
             ELSE IF a.kind = "err"
             THEN Failed(a, t, a.err, depth)
             ELSE construct(a, t, provider, fails, depth)

----------------------------------------------------------------------------
(* History: what the properties need to remember of earlier calls *)

\* For a type whose provider has Singleton scope: runs, the invocations of
\* its constructor since the provider was registered; oks, those that returned
\* no error; first, the first value a resolve of the type returned since then.
\* prev: the constructor that the registration of the current one overwrote.
NoHist == [runs |-> 0, oks |-> 0, first |-> NoValue, prev |-> ""]

Count(log, e, t, okOnly) ==
    LET Hit(x) == x.e = e /\ x.type = t /\ (okOnly => x.err = NoError)
    IN  Len(SelectSeq(log, Hit))

FirstResolved(log, t) ==
    LET Hit(x) == x.e = "resolved" /\ x.type = t
        hits == SelectSeq(log, Hit)
    IN  IF hits = <<>> THEN NoValue ELSE hits[1].val

IsSingleton(prov, t) == t \in DOMAIN prov /\ prov[t].Scope = ScopeSingleton

HistAfterLog(h, prov, log) ==
    [t \in Types |->
        IF IsSingleton(prov, t)
        THEN [h[t] EXCEPT !.runs = @ + Count(log, "call", t, FALSE),
                          !.oks = @ + Count(log, "call", t, TRUE),
                          !.first = IF @ = NoValue THEN FirstResolved(log, t) ELSE @]
        ELSE h[t]]

HistAfterRegister(h, prov, t, constructor) ==
    [h EXCEPT ![t] = [runs |-> 0, oks |-> 0, first |-> NoValue,
                      prev |-> IF t \in DOMAIN prov /\ prov[t].Value # constructor
                               THEN prov[t].Value
                               ELSE @.prev]]

----------------------------------------------------------------------------
(* The calls on the container *)

\* op: the entry point; arg: the constructor, type, function or struct passed;
\* key: the configuration key passed; scope: the scope passed; res: "ok" (the
\* call returned no error), "err" (it returned err), "panic" or "overflow";
\* val: the value returned; log: the events; fields: the struct after Bind
Result(op, arg, key, scope, res, val, err, log, fields) ==
    [op |-> op, arg |-> arg, key |-> key, scope |-> scope, res |-> res, val |-> val,
     err |-> err, log |-> log, fields |-> fields]

\* The goroutines that call resolve at the same time as one another
Goroutines == {1, 2}

\* a goroutine that has not called resolve yet. status: "idle", "running",
\* "done" (resolve returned (val, err)) or "fatal" (the runtime ended the
\* process); t: the type passed to resolve; stack: the frames of resolve, the
\* innermost last; missed: the types whose cache lookup found nothing; after:
\* the goroutines whose resolve had returned when this one was called
Idle ==
    [status |-> "idle", t |-> "", stack |-> <<>>, val |-> NoValue, err |-> NoError,
     missed |-> {}, after |-> {}]

\* New(): the three maps are empty
Init ==
    /\ providers = EmptyMap
    /\ instances = EmptyMap
    /\ configurations = EmptyMap
    /\ serial = 0
    /\ last = Result("New", "", "", ScopeTransient, "ok", NoValue, NoError, <<>>, <<>>)
    /\ hist = [t \in Types |-> NoHist]
    /\ goroutines = [g \in Goroutines |-> Idle]

\* a stack overflow is fatal: the process makes no further call
Alive == last.res # "overflow"


\* a provider already registered for the type is kept (first registration wins)
addWithScope_KeepFirst(prov, scope, constructor) ==
    LET sp == spec(constructor)
    IN  IF sp.panic
        THEN [res |-> "panic", err |-> NoError, t |-> "", providers |-> prov]
        ELSE IF sp.err # NoError
        THEN [res |-> "err", err |-> sp.err, t |-> "", providers |-> prov]
        ELSE [res |-> "ok", err |-> NoError, t |-> sp.t,
              providers |-> IF sp.t \in DOMAIN prov
                            THEN prov
                            ELSE MapPut(prov, sp.t, [Type |-> sp.t, Value |-> sp.v, Scope |-> scope])]

\* the effect of AddWithScope on the providers map `prov`
addWithScope(prov, scope, constructor) ==
    LET sp == spec(constructor)
    IN  IF sp.panic
        THEN [res |-> "panic", err |-> NoError, t |-> "", providers |-> prov]
        ELSE IF sp.err # NoError
        THEN [res |-> "err", err |-> sp.err, t |-> "", providers |-> prov]
        ELSE [res |-> "ok", err |-> NoError, t |-> sp.t,
              providers |-> MapPut(prov, sp.t, [Type |-> sp.t, Value |-> sp.v, Scope |-> scope])]

\* what a registration entry point leaves behind, given addWithScope's effect r
Registered(op, key, constructor, scope, r) ==
    /\ providers' = r.providers
    /\ hist' = IF r.res = "ok" THEN HistAfterRegister(hist, providers, r.t, constructor) ELSE hist
    /\ last' = Result(op, constructor, key, scope, r.res, NoValue, r.err, <<>>, <<>>)
    /\ UNCHANGED <<instances, serial, goroutines>>

AddWithScope(scope, constructor) ==
    /\ Alive
    /\ Registered("AddWithScope", "", constructor, scope,
                  addWithScope(providers, scope, constructor))
    /\ UNCHANGED configurations

Add(constructor) ==
    /\ Alive
    /\ Registered("AddWithScope", "", constructor, ScopeTransient,
                  addWithScope(providers, ScopeTransient, constructor))
    /\ UNCHANGED configurations

AddSingleton(constructor) ==
    /\ Alive
    /\ Registered("AddWithScope", "", constructor, ScopeSingleton,
                  addWithScope(providers, ScopeSingleton, constructor))
    /\ UNCHANGED configurations

\* spec, then AddSingleton, then configurations[key] = t
Configure(key, constructor) ==
    /\ Alive
    /\ LET sp == spec(constructor)
           r == addWithScope(providers, ScopeSingleton, constructor)
       IN  IF sp.panic \/ sp.err # NoError
           THEN /\ Registered("Configure", key, constructor, ScopeSingleton,
                              [res |-> IF sp.panic THEN "panic" ELSE "err", err |-> sp.err,
                               t |-> "", providers |-> providers])
                /\ UNCHANGED configurations
           ELSE /\ Registered("Configure", key, constructor, ScopeSingleton, r)
                /\ configurations' = IF r.res = "ok"
                                     THEN MapPut(configurations, key, sp.t)
                                     ELSE configurations

\* what a resolving entry point leaves behind, given the final running state r;
\* a call that would take the invocation counter past MaxCalls (past MaxFirst,
\* on a container that has invoked no constructor yet) is not made
Resolved(op, arg, key, r, res, val, err, fields) ==
    /\ r.serial <= (IF serial = 0 /\ MaxFirst > MaxCalls THEN MaxFirst ELSE MaxCalls)
    /\ instances' = r.inst
    /\ serial' = r.serial
    /\ hist' = HistAfterLog(hist, providers, r.log)
    /\ last' = Result(op, arg, key, ScopeTransient, res, val, err, r.log, fields)
    /\ UNCHANGED <<providers, configurations, goroutines>>

\* a direct call of resolve(t)
Resolve(t, fails) ==
    /\ Alive
    /\ LET r == resolve(t, Start(instances, serial), fails, 0)
       IN  Resolved("resolve", t, "", r, r.kind, r.val, r.err, <<>>)

RECURSIVE invokeArgs(_, _, _, _, _)

\* Invoke's loop over fn's parameter types In(i), i = 1..NumIn
invokeArgs(in, i, args, s, fails) ==
    IF i > Len(in)
    THEN [s EXCEPT !.kind = "ok", !.args = args]
    ELSE LET r == resolve(in[i], s, fails, 0)
         IN  IF r.kind # "ok"
             THEN r
             ELSE invokeArgs(in, i + 1, Append(args, r.val), r, fails)

\* fn is not called
callFn_Skip(s, fn) == s

\* v.Call(args): the outputs of fn are dropped
callFn(s, fn) ==
    [s EXCEPT !.log = Append(@, Event("fn", "", fn, s.args, NoValue,
                                      IF FnTable[fn].RetErr THEN CtorError(fn) ELSE NoError, 0))]

\* the error fn returns is returned by Invoke
Invoke_InspectOutputs(fn, fails) ==
    /\ Alive
    /\ IF FnTable[fn].Kind # "Func"
       THEN Resolved("Invoke", fn, "", Start(instances, serial), "err", NoValue,
                     InvokeExpectsFunction, <<>>)
       ELSE LET a == invokeArgs(FnTable[fn].In, 1, <<>>, Start(instances, serial), fails)
            IN  IF a.kind = "ok"
                THEN IF FnTable[fn].RetErr
                     THEN Resolved("Invoke", fn, "", callFn(a, fn), "err", NoValue,
                                   CtorError(fn), <<>>)
                     ELSE Resolved("Invoke", fn, "", callFn(a, fn), "ok", NoValue, NoError, <<>>)
                ELSE Resolved("Invoke", fn, "", a, a.kind, NoValue, a.err, <<>>)

Invoke(fn, fails) ==
    /\ Alive
    /\ IF FnTable[fn].Kind # "Func"
       THEN Resolved("Invoke", fn, "", Start(instances, serial), "err", NoValue,
                     InvokeExpectsFunction, <<>>)
       ELSE LET a == invokeArgs(FnTable[fn].In, 1, <<>>, Start(instances, serial), fails)
            IN  IF a.kind = "ok"
                THEN Resolved("Invoke", fn, "", callFn(a, fn), "ok", NoValue, NoError, <<>>)
                ELSE Resolved("Invoke", fn, "", a, a.kind, NoValue, a.err, <<>>)

\* a field that held a value before Bind was called
Stale == [ctor |-> "stale", id |-> 0]

\* the field is not assigned
setField_Skip(fields, i, val) == fields

\* field.Set(val) on field i
setField(fields, i, val) == [fields EXCEPT ![i] = val]

RECURSIVE bindFields(_, _, _, _, _)

\* Bind's loop over the struct's fields i = 1..NumField: resolve the field's
\* type, return on error, else field.Set(val)
bindFields(ftypes, i, fields, s, fails) ==
    IF i > Len(ftypes)
    THEN [s EXCEPT !.kind = "ok", !.args = fields]
    ELSE LET r == resolve(ftypes[i], s, fails, 0)
         IN  IF r.kind # "ok"
             THEN [r EXCEPT !.args = fields]
             ELSE bindFields(ftypes, i + 1, setField(fields, i, r.val), r, fails)

\* out points to a struct whose fields all hold `old`
Bind(out, old, fails) ==
    /\ Alive
    /\ LET ftypes == StructTable[out]
           b == bindFields(ftypes, 1, [i \in 1..Len(ftypes) |-> old],
                           Start(instances, serial), fails)
       IN  Resolved("Bind", out, "", b, b.kind, NoValue, b.err, b.args)

\* a key that was never configured is taken as the name of a type
Get_TypeName(key, fails) ==
    /\ Alive
    /\ LET t == IF key \in DOMAIN configurations THEN configurations[key] ELSE key
       IN  IF t \notin Types
           THEN Resolved("Get", "", key, Start(instances, serial), "ok", NoValue, NoError, <<>>)
           ELSE LET r == resolve(t, Start(instances, serial), fails, 0)
                IN  IF r.kind = "err"
                    THEN Resolved("Get", "", key, r, "ok", NoValue, NoError, <<>>)
                    ELSE Resolved("Get", "", key, r, r.kind, r.val, NoError, <<>>)

Get(key, fails) ==
    /\ Alive
    /\ IF key \notin DOMAIN configurations
       THEN Resolved("Get", "", key, Start(instances, serial), "ok", NoValue, NoError, <<>>)
       ELSE LET r == resolve(configurations[key], Start(instances, serial), fails, 0)
            IN  IF r.kind = "err"
                THEN Resolved("Get", "", key, r, "ok", NoValue, NoError, <<>>)
                ELSE Resolved("Get", "", key, r, r.kind, r.val, NoError, <<>>)

Next ==
    \/ \E scope \in Scopes, constructor \in CoreCtorArgs : AddWithScope(scope, constructor)
    \/ \E constructor \in CoreCtorArgs : Add(constructor)
    \/ \E constructor \in CoreCtorArgs : AddSingleton(constructor)
    \/ \E key \in Keys, constructor \in CtorsOf("Config") \cap CoreCtorArgs :
            Configure(key, constructor)
    \/ \E t \in Types, fails \in SUBSET ErrCtors : Resolve(t, fails)
    \/ \E fn \in FnArgs, fails \in SUBSET ErrCtors : Invoke(fn, fails)
    \/ \E out \in StructArgs, fails \in SUBSET ErrCtors : Bind(out, Stale, fails)
    \/ \E key \in Keys, fails \in SUBSET ErrCtors : Get(key, fails)

Spec == Init /\ [][Next]_vars

\* The registration entry points with every kind of argument, and the
\* configuration keys of TestConfigure read back with Get.
CfgKeys == {"DBConfig", "DBService"}
RegCtorArgs == {"newConfig", "newDB"} \cup BadCtorArgs

NextReg ==
    \/ \E scope \in Scopes, constructor \in RegCtorArgs : AddWithScope(scope, constructor)
    \/ \E constructor \in RegCtorArgs : Add(constructor)
    \/ \E constructor \in RegCtorArgs : AddSingleton(constructor)
    \/ \E key \in CfgKeys, constructor \in RegCtorArgs : Configure(key, constructor)
    \/ \E key \in CfgKeys : Get(key, {})

SpecReg == Init /\ [][NextReg]_vars

\* TestConfigure: constructors stored under keys with Configure and read back
\* with Get, while Add registers their produced types again.
CfgCtorArgs == {"newConfig", "newConfigE", "newDB"}

NextCfg ==
    \/ \E key \in CfgKeys, constructor \in CfgCtorArgs : Configure(key, constructor)
    \/ \E constructor \in CfgCtorArgs : Add(constructor)
    \/ \E key \in CfgKeys, fails \in SUBSET ErrCtors : Get(key, fails)

SpecCfg == Init /\ [][NextCfg]_vars

\* TestContainer: a Singleton Config, a Transient DBService built from it, and
\* calls of Invoke and Bind (the struct's field holds nothing or an old value)
\* and of resolve.
TestFnArgs == {"useDB", "configValue", "nilValue"}

NextTest ==
    \/ AddSingleton("newConfig")
    \/ Add("newDB")
    \/ \E fn \in TestFnArgs : Invoke(fn, {})
    \/ \E old \in {NoValue, Stale} : Bind("ToBind", old, {})
    \/ \E t \in Types : Resolve(t, {})

SpecTest == Init /\ [][NextTest]_vars

\* Registries with a cycle: newConfigDB builds a Config from a DBService, which
\* newDB builds from a Config.
CycCtorArgs == {"newConfig", "newConfigDB", "newDB", "newLogger"}

NextCyc ==
    \/ \E scope \in Scopes, constructor \in CycCtorArgs : AddWithScope(scope, constructor)
    \/ \E t \in Types : Resolve(t, {})

SpecCyc == Init /\ [][NextCyc]_vars

\* One resolve on the dependency graphs of newLogger (a Config and a DBService,
\* itself built from a Config) and of newLogger2 (two DBService parameters),
\* under every choice of scopes.
OnceCtorArgs == {"newConfig", "newDB", "newLogger", "newLogger2"}

NextOnce ==
    \/ \E scope \in Scopes, constructor \in OnceCtorArgs : AddWithScope(scope, constructor)
    \/ \E t \in Types : Resolve(t, {})

SpecOnce == Init /\ [][NextOnce]_vars

----------------------------------------------------------------------------
(* resolve called from several goroutines at once. No lock is taken: the      *)
(* steps of the goroutines interleave between the accesses to c.instances.    *)

\* a frame of resolve(t). pc: "enter" (before the cache lookup), "args" (in
\* the loop over the parameters) or "store" (before c.instances[t] = result)
NewFrame(t) ==
    [t |-> t, pc |-> "enter", provider |-> [Type |-> "", Value |-> "", Scope |-> ScopeTransient],
     args |-> <<>>, result |-> NoValue]

TopFrame(th) == th.stack[Len(th.stack)]

\* the innermost frame of th returns (val, err): the caller appends val to its
\* args, or returns err itself, and so does every frame up to the goroutine
return(th, val, err) ==
    LET rest == SubSeq(th.stack, 1, Len(th.stack) - 1)
    IN  IF rest = <<>> \/ err # NoError
        THEN [th EXCEPT !.status = "done", !.stack = <<>>,
                        !.val = IF err # NoError THEN NoValue ELSE val, !.err = err]
        ELSE [th EXCEPT !.stack = [rest EXCEPT ![Len(rest)].args = Append(@, val)]]

\* the innermost frame of th becomes f
SetTop(th, f) == [th EXCEPT !.stack[Len(th.stack)] = f]

Running(g) == goroutines[g].status = "running"

\* goroutine g calls c.resolve(t)
Go(g, t) ==
    /\ goroutines[g].status = "idle"
    /\ \A h \in Goroutines : goroutines[h].status # "fatal"
    /\ goroutines' = [goroutines EXCEPT ![g] =
            [Idle EXCEPT !.status = "running", !.t = t, !.stack = <<NewFrame(t)>>,
                         !.after = {h \in Goroutines : goroutines[h].status = "done"}]]
    /\ UNCHANGED <<providers, instances, configurations, serial, last, hist>>

\* the cache lookup and the provider lookup of the innermost frame
Enter(g) ==
    /\ Running(g)
    /\ TopFrame(goroutines[g]).pc = "enter"
    /\ LET th == goroutines[g]
           t == TopFrame(th).t
           miss == [th EXCEPT !.missed = @ \cup {t}]
       IN  goroutines' = [goroutines EXCEPT ![g] =
                IF cached([inst |-> instances], t)
                THEN return(th, instances[t], NoError)
                ELSE IF t \notin DOMAIN providers
                THEN return(miss, NoValue, NoProvider(t))
                ELSE SetTop(miss, [TopFrame(th) EXCEPT !.pc = "args", !.provider = providers[t]])]
    /\ UNCHANGED <<providers, instances, configurations, serial, last, hist>>

\* the loop over the parameters calls resolve for the next one
PushArg(g) ==
    /\ Running(g)
    /\ LET th == goroutines[g]
           f == TopFrame(th)
       IN  /\ f.pc = "args"
           /\ Len(f.args) < NumIn(f.provider.Value)
           /\ goroutines' = [goroutines EXCEPT ![g] =
                    [th EXCEPT !.stack =
                        Append(@, NewFrame(CtorTable[f.provider.Value].In[Len(f.args) + 1]))]]
    /\ UNCHANGED <<providers, instances, configurations, serial, last, hist>>

\* provider.Value.Call(args) and the test of its second output
CallCtor(g, fails) ==
    /\ Running(g)
    /\ serial < MaxCalls
    /\ LET th == goroutines[g]
           f == TopFrame(th)
           out == Call(f.provider.Value, f.args, serial + 1, fails)
       IN  /\ f.pc = "args"
           /\ Len(f.args) = NumIn(f.provider.Value)
           /\ goroutines' = [goroutines EXCEPT ![g] =
                    IF isError(out)
                    THEN return(th, NoValue, out[2])
                    ELSE IF f.provider.Scope = ScopeSingleton
                    THEN SetTop(th, [f EXCEPT !.pc = "store", !.result = out[1]])
                    ELSE return(th, out[1], NoError)]
    /\ serial' = serial + 1
    /\ UNCHANGED <<providers, instances, configurations, last, hist>>

\* an entry already in the cache is kept and returned in place of the result
stored_LoadOrStore(inst, t, provider, result) ==
    IF t \in DOMAIN inst
    THEN [inst |-> inst, val |-> inst[t]]
    ELSE [inst |-> MapPut(inst, t, result), val |-> result]

\* c.instances[t] = result; return result, nil
stored(inst, t, provider, result) ==
    [inst |-> cacheResult([inst |-> inst], t, provider, result).inst, val |-> result]

Store(g) ==
    /\ Running(g)
    /\ TopFrame(goroutines[g]).pc = "store"
    /\ LET th == goroutines[g]
           f == TopFrame(th)
           st == stored(instances, f.t, f.provider, f.result)
       IN  /\ instances' = st.inst
           /\ goroutines' = [goroutines EXCEPT ![g] = return(th, st.val, NoError)]
    /\ UNCHANGED <<providers, configurations, serial, last, hist>>

\* g is about to write c.instances while h is about to read or write it: the
\* two map accesses may overlap, and the runtime may then end the process
\* ("fatal error: concurrent map writes", "concurrent map read and map write")
Throw(g, h) ==
    /\ g # h
    /\ Running(g)
    /\ Running(h)
    /\ TopFrame(goroutines[g]).pc = "store"
    /\ TopFrame(goroutines[h]).pc \in {"enter", "store"}
    /\ goroutines' = [k \in Goroutines |-> [goroutines[k] EXCEPT !.status = "fatal"]]
    /\ UNCHANGED <<providers, instances, configurations, serial, last, hist>>

\* The providers are registered before any goroutine calls resolve.
RaceCtorArgs == {"newConfig", "newDB"}
RaceTypes == {"Config", "DBService"}

NextRace ==
    \/ \E scope \in Scopes, constructor \in RaceCtorArgs :
            /\ \A g \in Goroutines : goroutines[g].status = "idle"
            /\ AddWithScope(scope, constructor)
    \/ \E g \in Goroutines, t \in RaceTypes : Go(g, t)
    \/ \E g \in Goroutines : Enter(g)
    \/ \E g \in Goroutines : PushArg(g)
    \/ \E g \in Goroutines : CallCtor(g, {})
    \/ \E g \in Goroutines : Store(g)
    \/ \E g, h \in Goroutines : Throw(g, h)

SpecRace == Init /\ [][NextRace]_vars

----------------------------------------------------------------------------
(* Reading the log of the last call *)

ResolvingOps == {"resolve", "Invoke", "Bind", "Get"}
RegisteringOps == {"AddWithScope", "Configure"}

IsTransient(prov, t) == t \in DOMAIN prov /\ prov[t].Scope = ScopeTransient

\* the places in the log where a resolve(t) frame returns
FrameEnds(log, t) ==
    {i \in 1..Len(log) : log[i].e \in {"resolved", "failed"} /\ log[i].type = t}

\* the frame returning at i invoked its constructor (the call is logged just
\* before the frame returns)
OwnCall(log, i) ==
    /\ i > 1
    /\ log[i - 1].e = "call"
    /\ log[i - 1].type = log[i].type
    /\ log[i - 1].depth = log[i].depth

\* the frame returning at i returns the failure of one of its parameters
DepsFailed(log, i) ==
    /\ i > 1
    /\ log[i - 1].e = "failed"
    /\ log[i - 1].depth = log[i].depth + 1

\* the returns of the resolve calls made by the entry point itself
TopEvents(log) ==
    LET Top(x) == x.e \in {"resolved", "failed"} /\ x.depth = 0
    IN  SelectSeq(log, Top)

\* the entry point got an error from one of its resolve calls
FailedCall(l) ==
    /\ l.op \in ResolvingOps
    /\ \E i \in 1..Len(l.log) : l.log[i].e = "failed" /\ l.log[i].depth = 0

----------------------------------------------------------------------------
(* C1: Singleton scope *)

\* C1 as stated: for every type whose provider has Singleton scope, the
\* constructor has been invoked at most once since the provider was registered,
\* and every resolve of the type returns the value the first one returned.
C1_AsStated ==
    \A t \in Types :
        IsSingleton(providers, t) =>
            /\ hist[t].runs <= 1
            /\ \A i \in FrameEnds(last.log, t) :
                    last.log[i].e = "resolved" => last.log[i].val = hist[t].first

\* C1 as amended: for every type whose provider has Singleton scope, the
\* constructor has returned without error at most once since the provider was
\* registered (an invocation that returns an error caches nothing and may be
\* repeated), every resolve of the type that returns a value returns the value
\* the first one returned, and once a resolve of the type has returned a value
\* no later call on the container invokes the constructor.
C1_SingletonOnce ==
    /\ [](\A t \in Types :
            IsSingleton(providers, t) =>
                /\ hist[t].oks <= 1
                /\ \A i \in FrameEnds(last.log, t) :
                        last.log[i].e = "resolved" => last.log[i].val = hist[t].first)
    /\ [][\A t \in Types :
            (/\ IsSingleton(providers, t)
             /\ hist[t].first # NoValue
             /\ last'.op \in ResolvingOps)
            => hist'[t].runs = hist[t].runs]_vars

\* a Singleton provider failed once, then succeeded, and the last call got the
\* cached value without invoking the constructor
C1_Witness ==
    \E t \in Types :
        /\ IsSingleton(providers, t)
        /\ hist[t].runs = 2
        /\ hist[t].oks = 1
        /\ last.op = "resolve"
        /\ last.arg = t
        /\ last.res = "ok"
        /\ last.val = hist[t].first
        /\ Count(last.log, "call", t, FALSE) = 0

----------------------------------------------------------------------------
(* C2: Transient scope *)

\* the entry for t in the instance cache is the same before and after the step
EntrySame(t) ==
    /\ (t \in DOMAIN instances) = (t \in DOMAIN instances')
    /\ t \in DOMAIN instances => instances'[t] = instances[t]

\* C2 as stated: in every reachable state, every resolve of a type whose
\* provider has Transient scope, and whose parameters resolve, invokes the
\* constructor exactly once, and no call changes the type's cache entry.
C2_AsStated ==
    /\ [](\A t \in Types :
            IsTransient(providers, t) =>
                \A i \in FrameEnds(last.log, t) :
                    ~DepsFailed(last.log, i) => OwnCall(last.log, i))
    /\ [][\A t \in Types :
            (IsTransient(providers, t) /\ last'.op \in ResolvingOps) => EntrySame(t)]_vars

\* C2 as amended: every resolve of a type whose provider has Transient scope,
\* made while the cache holds no entry for the type and whose parameters
\* resolve, invokes the constructor exactly once; while the cache holds an entry
\* for the type (cached under an earlier Singleton registration) the resolve
\* returns that entry and invokes nothing; no call changes the type's cache entry.
C2_Transient ==
    [][last'.op \in ResolvingOps =>
        \A t \in Types :
            IsTransient(providers, t) =>
                /\ EntrySame(t)
                /\ \A i \in FrameEnds(last'.log, t) :
                     IF t \in DOMAIN instances
                     THEN /\ ~OwnCall(last'.log, i)
                          /\ last'.log[i].e = "resolved"
                          /\ last'.log[i].val = instances[t]
                     ELSE ~DepsFailed(last'.log, i) => OwnCall(last'.log, i)
                /\ \A j \in 1..Len(last'.log) :
                     (last'.log[j].e = "call" /\ last'.log[j].type = t) =>
                        /\ j + 1 \in FrameEnds(last'.log, t)
                        /\ t \notin DOMAIN instances
                        /\ OwnCall(last'.log, j + 1)]_vars

\* a resolve of a Transient type invoked its constructor once, with a cached
\* Singleton parameter, and nothing was cached for the type
C2_Witness ==
    \E t \in Types :
        /\ IsTransient(providers, t)
        /\ t \notin DOMAIN instances
        /\ DOMAIN instances # {}
        /\ last.op = "resolve"
        /\ last.arg = t
        /\ last.res = "ok"
        /\ last.val.id = serial
        /\ serial >= 3
        /\ Count(last.log, "call", t, TRUE) = 1

----------------------------------------------------------------------------
(* C3: last registration wins *)

\* C3 as stated: after constructor c1 of a type was registered and a later
\* registration of c2 overwrote it (hist.prev is c1, the provider is c2), the
\* registration returned no error, c1 is not invoked again and no resolve of the
\* type returns a value c1 produced: every value returned is produced by c2.
C3_AsStated ==
    /\ (last.op \in RegisteringOps /\ last.arg \in Ctors) => last.res = "ok"
    /\ \A t \in DOMAIN providers :
         hist[t].prev # "" =>
            \A i \in 1..Len(last.log) :
                last.log[i].type = t =>
                    /\ last.log[i].e = "call" => last.log[i].by = providers[t].Value
                    /\ last.log[i].e = "resolved" =>
                            last.log[i].val.ctor = providers[t].Value

\* C3 as amended: a registration of a valid constructor returns no error and
\* replaces the provider of the produced type; after c2 overwrote c1, c1 is not
\* invoked again, and every value a resolve of the type returns was produced by
\* c2, unless the cache holds an entry for the type (produced before c2 was
\* registered, possibly by c1), which is then the value returned.
C3_LastWriteWins ==
    /\ (last.op \in RegisteringOps /\ last.arg \in Ctors) =>
            /\ last.res = "ok"
            /\ CtorTable[last.arg].Out[1] \in DOMAIN providers
            /\ providers[CtorTable[last.arg].Out[1]].Value = last.arg
            /\ providers[CtorTable[last.arg].Out[1]].Scope = last.scope
    /\ \A t \in DOMAIN providers :
         hist[t].prev # "" =>
            \A i \in 1..Len(last.log) :
                last.log[i].type = t =>
                    /\ last.log[i].e = "call" => last.log[i].by = providers[t].Value
                    /\ last.log[i].e = "resolved" =>
                            \/ last.log[i].val.ctor = providers[t].Value
                            \/ (t \in DOMAIN instances /\ last.log[i].val = instances[t])

\* newConfigE was registered over newConfig with nothing cached, and a resolve
\* of Config then invoked newConfigE and returned its value
C3_Witness ==
    /\ hist["Config"].prev = "newConfig"
    /\ providers["Config"].Value = "newConfigE"
    /\ last.op = "resolve"
    /\ last.arg = "Config"
    /\ last.res = "ok"
    /\ last.val.ctor = "newConfigE"
    /\ Count(last.log, "call", "Config", TRUE) = 1

----------------------------------------------------------------------------
(* C4: the instance cache is append-only *)

\* C4: no call on the container changes or removes an entry of the instance
\* cache, and every constructor a call invokes is the one registered for its
\* type when the call is made, invoked only for a type with no cache entry.
C4_AppendOnly ==
    [][/\ \A t \in DOMAIN instances :
            t \in DOMAIN instances' /\ instances'[t] = instances[t]
       /\ last'.op \in ResolvingOps =>
            \A i \in 1..Len(last'.log) :
                last'.log[i].e = "call" =>
                    /\ last'.log[i].type \in DOMAIN providers
                    /\ last'.log[i].by = providers[last'.log[i].type].Value
                    /\ last'.log[i].type \notin DOMAIN instances]_vars

\* newConfig's value is cached, newConfigE has been registered over it, and the
\* last call built a DBService from the cached Config
C4_Witness ==
    /\ "Config" \in DOMAIN instances
    /\ instances["Config"].ctor = "newConfig"
    /\ providers["Config"].Value = "newConfigE"
    /\ last.op \in ResolvingOps
    /\ \E i \in 1..Len(last.log) :
            /\ last.log[i].e = "call"
            /\ last.log[i].type = "DBService"
            /\ last.log[i].args = <<instances["Config"]>>

----------------------------------------------------------------------------
(* C5: no provider *)

\* C5: a resolve of a type with no registered provider returns an error that
\* names the type and no value, and leaves the instance cache and the providers
\* as they were.
C5_NoProvider ==
    [][(last'.op = "resolve" /\ last'.arg \notin DOMAIN providers) =>
            /\ last'.res = "err"
            /\ last'.err.kind = "no provider for type"
            /\ last'.err.of = last'.arg
            /\ last'.val = NoValue
            /\ Count(last'.log, "call", last'.arg, FALSE) = 0
            /\ instances' = instances
            /\ providers' = providers]_vars

\* a resolve of an unregistered type failed while the cache held an entry
C5_Witness ==
    /\ last.op = "resolve"
    /\ last.arg \notin DOMAIN providers
    /\ last.res = "err"
    /\ DOMAIN instances # {}
    /\ DOMAIN providers # {}

----------------------------------------------------------------------------
(* C6: a constructor that returns an error *)

\* C6: when a constructor returns a non-nil second output, the resolve that
\* invoked it returns exactly that error and no value, the entry point returns
\* that error (Get returns nil), and the constructor's first output is neither
\* returned by any resolve nor stored in the cache: the type has no entry.
C6_ConstructorError ==
    \A j \in 1..Len(last.log) :
        (last.log[j].e = "call" /\ last.log[j].err # NoError) =>
            /\ j < Len(last.log)
            /\ last.log[j + 1].e = "failed"
            /\ last.log[j + 1].type = last.log[j].type
            /\ last.log[j + 1].depth = last.log[j].depth
            /\ last.log[j + 1].err = last.log[j].err
            /\ last.log[j + 1].val = NoValue
            /\ last.log[j].type \notin DOMAIN instances
            /\ \A u \in DOMAIN instances : instances[u] # last.log[j].val
            /\ \A i \in 1..Len(last.log) :
                    last.log[i].e = "resolved" => last.log[i].val # last.log[j].val
            /\ last.val = NoValue
            /\ last.op # "Get" => (last.res = "err" /\ last.err = last.log[j].err)
            /\ last.op = "Get" => last.res = "ok"

\* a Singleton provider's constructor returned an error to a resolve
C6_Witness ==
    /\ last.op = "resolve"
    /\ IsSingleton(providers, last.arg)
    /\ last.res = "err"
    /\ last.err.kind = "constructor error"
    /\ Count(last.log, "call", last.arg, FALSE) = 1

----------------------------------------------------------------------------
(* C7: what a failed call leaves in the cache *)

\* C7 as stated: when an entry point gets an error from a resolve, the instance
\* cache after the call equals the instance cache before it.
C7_AsStated ==
    [][FailedCall(last') => instances' = instances]_vars

\* C7 as amended: when an entry point gets an error from a resolve, no entry
\* of the cache is changed or removed, no type whose resolve failed in the call
\* has an entry, and every entry the call added is the value that the
\* constructor of a Singleton-scoped type returned without error during the
\* call (Singleton dependencies resolved before the failure stay cached).
C7_FailureCaching ==
    [][FailedCall(last') =>
        /\ \A t \in DOMAIN instances :
                t \in DOMAIN instances' /\ instances'[t] = instances[t]
        /\ \A i \in 1..Len(last'.log) :
                last'.log[i].e = "failed" => last'.log[i].type \notin DOMAIN instances'
        /\ \A t \in (DOMAIN instances') \ (DOMAIN instances) :
                /\ IsSingleton(providers, t)
                /\ \E i \in 1..Len(last'.log) :
                        /\ last'.log[i].e = "call"
                        /\ last'.log[i].type = t
                        /\ last'.log[i].err = NoError
                        /\ last'.log[i].val = instances'[t]]_vars

\* the last call failed after it had built and cached a Singleton dependency
C7_Witness ==
    /\ FailedCall(last)
    /\ \E i \in 1..Len(last.log) :
            /\ last.log[i].e = "call"
            /\ last.log[i].type \in DOMAIN instances
            /\ instances[last.log[i].type] = last.log[i].val

----------------------------------------------------------------------------
(* C8: Invoke *)

\* C8: Invoke of a value that is no function returns "invoke expects a
\* function" and resolves nothing. Invoke of a function resolves its parameter
\* types in declaration order; when all resolve, the function is called once,
\* after the last resolve, with the resolved values in order, and Invoke returns
\* nil; when one fails, nothing is resolved after it, the function is not called
\* and Invoke returns that resolve's error.
C8_Invoke ==
    last.op = "Invoke" =>
        LET f == FnTable[last.arg]
            log == last.log
            top == TopEvents(log)
            n == Len(f.In)
            k == Len(top)
            fnAt == {i \in 1..Len(log) : log[i].e = "fn"}
        IN  IF f.Kind # "Func"
            THEN /\ last.res = "err"
                 /\ last.err.kind = "usage"
                 /\ last.err.of = "invoke expects a function"
                 /\ log = <<>>
            ELSE /\ k <= n
                 /\ \A i \in 1..k : top[i].type = f.In[i]
                 /\ \A i \in 1..(k - 1) : top[i].e = "resolved"
                 /\ IF k = n /\ (n = 0 \/ top[n].e = "resolved")
                    THEN /\ fnAt = {Len(log)}
                         /\ log[Len(log)].by = last.arg
                         /\ log[Len(log)].args = [i \in 1..n |-> top[i].val]
                         /\ last.res = "ok"
                         /\ last.err = NoError
                    ELSE /\ fnAt = {}
                         /\ last.res \in {"err", "overflow"}
                         /\ last.res = "err" =>
                                /\ top[k].e = "failed"
                                /\ log[Len(log)] = top[k]
                                /\ last.err = top[k].err

\* Invoke called a function of two parameters with two resolved values
C8_Witness ==
    /\ last.op = "Invoke"
    /\ last.arg = "useLoggerDB"
    /\ last.res = "ok"
    /\ Len(TopEvents(last.log)) = 2
    /\ last.log[Len(last.log)].e = "fn"
    /\ Len(last.log[Len(last.log)].args) = 2

----------------------------------------------------------------------------
(* C9: Bind *)

\* C9: Bind resolves the field types in declaration order and sets each field
\* to the value resolved for its type; when the resolve for field K is the
\* first to fail, Bind returns that error, nothing is resolved after it, the
\* fields before K hold their resolved values and field K and the fields after
\* it hold what they held before the call.
C9_Bind ==
    last.op = "Bind" =>
        LET ft == StructTable[last.arg]
            log == last.log
            top == TopEvents(log)
            n == Len(ft)
            k == Len(top)
        IN  /\ Len(last.fields) = n
            /\ k <= n
            /\ \A i \in 1..k : top[i].type = ft[i]
            /\ \A i \in 1..(k - 1) : top[i].e = "resolved"
            /\ \A i \in 1..k : top[i].e = "resolved" => last.fields[i] = top[i].val
            /\ IF k = n /\ top[n].e = "resolved"
               THEN /\ last.res = "ok"
                    /\ last.err = NoError
               ELSE /\ last.res \in {"err", "overflow"}
                    /\ last.res = "err" =>
                        /\ top[k].e = "failed"
                        /\ log[Len(log)] = top[k]
                        /\ last.err = top[k].err
                        /\ \A i \in k..n : last.fields[i] = Stale

\* Bind failed at the second of three fields: the first is set, the second
\* and third are as before
C9_Witness ==
    /\ last.op = "Bind"
    /\ last.arg = "ToBind3"
    /\ last.res = "err"
    /\ Len(TopEvents(last.log)) = 2
    /\ last.fields[1] # Stale
    /\ last.fields[1] = TopEvents(last.log)[1].val
    /\ last.fields[2] = Stale
    /\ last.fields[3] = Stale

----------------------------------------------------------------------------
(* C10: validation at registration *)

\* the value is a function with one or two outputs
ValidCtor(c) == CtorTable[c].Kind = "Func" /\ Len(CtorTable[c].Out) \in {1, 2}

\* C10: a registration (Add, AddSingleton, AddWithScope, Configure) of a value
\* that is no function, or a function with no or more than two outputs,
\* returns a validation error and leaves the providers, the instance cache and
\* the configurations unchanged; any other registration returns no error and
\* maps the first output type to the constructor with the given scope.
C10_AsStated ==
    /\ [](last.op \in RegisteringOps =>
            IF ValidCtor(last.arg)
            THEN /\ last.res = "ok"
                 /\ CtorTable[last.arg].Out[1] \in DOMAIN providers
                 /\ providers[CtorTable[last.arg].Out[1]] =
                        [Type |-> CtorTable[last.arg].Out[1], Value |-> last.arg,
                         Scope |-> last.scope]
            ELSE /\ last.res = "err"
                 /\ last.err.kind = "validation")
    /\ [][(last'.op \in RegisteringOps /\ ~ValidCtor(last'.arg)) =>
            UNCHANGED <<providers, instances, configurations>>]_vars

----------------------------------------------------------------------------
(* C11: Get *)

\* the type remembered for the key of the last call
KeyType(l) == configurations[l.key]

\* C11 as stated: Get of a key that no successful Configure was given, or
\* whose type fails to resolve, returns nil; any other Get returns the value
\* resolved for the key's type, which Configure registered with Singleton
\* scope, and two Get calls of the same key in a row that return values return
\* the same one.
C11_AsStated ==
    /\ [](last.op = "Get" =>
            IF last.key \notin DOMAIN configurations \/ FailedCall(last)
            THEN last.val = NoValue
            ELSE /\ last.val # NoValue
                 /\ last.val = TopEvents(last.log)[1].val)
    /\ [][/\ (last'.op = "Configure" /\ last'.res = "ok") =>
                IsSingleton(providers', CtorTable[last'.arg].Out[1])
          /\ (/\ last.op = "Get"
              /\ last'.op = "Get"
              /\ last'.key = last.key
              /\ last.val # NoValue
              /\ last'.val # NoValue) => last'.val = last.val]_vars

\* C11 as amended: the configurations change only by a successful Configure,
\* which maps its key to the produced type and registers the constructor with
\* Singleton scope. Get of a key not in the configurations returns nil and
\* resolves nothing (whatever providers exist); Get of any other key makes one
\* resolve, of the key's type, and returns nil when it fails and its value
\* otherwise. A Get made while the cache holds an entry for the key's type
\* returns that entry and invokes nothing, and a value Get returns while the
\* type's provider has Singleton scope is the cache's entry afterwards: from
\* then on every Get of the key returns it. (After an Add of the type, with
\* nothing cached, every Get returns a new instance.)
C11_Get ==
    /\ [](last.op = "Get" =>
            /\ last.res = "ok"
            /\ last.err = NoError
            /\ IF last.key \notin DOMAIN configurations
               THEN /\ last.val = NoValue
                    /\ last.log = <<>>
               ELSE LET top == TopEvents(last.log)
                        t == KeyType(last)
                    IN  /\ Len(top) = 1
                        /\ top[1].type = t
                        /\ last.log[Len(last.log)] = top[1]
                        /\ top[1].e = "failed" => last.val = NoValue
                        /\ top[1].e = "resolved" =>
                                (last.val = top[1].val /\ last.val # NoValue)
                        /\ (last.val # NoValue /\ IsSingleton(providers, t)) =>
                                (t \in DOMAIN instances /\ instances[t] = last.val))
    /\ [][/\ configurations' # configurations =>
                /\ last'.op = "Configure"
                /\ last'.res = "ok"
                /\ configurations' =
                        MapPut(configurations, last'.key, CtorTable[last'.arg].Out[1])
          /\ (last'.op = "Configure" /\ last'.res = "ok") =>
                /\ last'.key \in DOMAIN configurations'
                /\ configurations'[last'.key] = CtorTable[last'.arg].Out[1]
                /\ providers'[CtorTable[last'.arg].Out[1]] =
                        [Type |-> CtorTable[last'.arg].Out[1], Value |-> last'.arg,
                         Scope |-> ScopeSingleton]
          /\ (/\ last'.op = "Get"
              /\ last'.key \in DOMAIN configurations
              /\ configurations[last'.key] \in DOMAIN instances) =>
                /\ last'.val = instances[configurations[last'.key]]
                /\ \A i \in 1..Len(last'.log) : last'.log[i].e # "call"]_vars

\* a second Get of a key returned the instance the first one cached, while a
\* provider is registered for the type that the other, unconfigured key names
C11_Witness ==
    /\ last.op = "Get"
    /\ last.key = "DBConfig"
    /\ last.val # NoValue
    /\ last.log = <<Event("resolved", "Config", "", <<>>, last.val, NoError, 0)>>
    /\ IsSingleton(providers, "Config")
    /\ "DBService" \in DOMAIN providers
    /\ "DBService" \notin DOMAIN configurations

----------------------------------------------------------------------------
(* C12: a Singleton Config under a Transient DBService *)

\* the providers TestContainer registers
TestRegistry ==
    providers = [t \in {"Config", "DBService"} |->
                    IF t = "Config"
                    THEN [Type |-> t, Value |-> "newConfig", Scope |-> ScopeSingleton]
                    ELSE [Type |-> t, Value |-> "newDB", Scope |-> ScopeTransient]]

\* the call is an Invoke, a Bind or a resolve that requires a DBService
NeedsDB(l) ==
    \/ l.op = "Invoke" /\ l.arg = "useDB"
    \/ l.op = "Bind" /\ l.arg = "ToBind"
    \/ l.op = "resolve" /\ l.arg = "DBService"

\* the places in the log where the constructor of t is invoked
CallsOf(log, t) == {i \in 1..Len(log) : log[i].e = "call" /\ log[i].type = t}

\* C12: with the providers of TestContainer, every Invoke, Bind and resolve
\* that requires a DBService returns no error and invokes newDB exactly once,
\* with the cached Config as its argument, and hands the new DBService to the
\* function or field; it invokes newConfig once if Config is not cached yet
\* (the first call that needs a Config) and not at all otherwise; the cached
\* Config is the first instance ever built and never changes, every later
\* instance being a DBService built from it.
C12_TestContainer ==
    /\ [](serial > 0 =>
            /\ instances = [t \in {"Config"} |-> [ctor |-> "newConfig", id |-> 1]]
            /\ \A i \in 1..Len(last.log) :
                    last.log[i].e = "call" =>
                        \/ last.log[i].val = instances["Config"]
                        \/ /\ last.log[i].type = "DBService"
                           /\ last.log[i].args = <<instances["Config"]>>)
    /\ [][(TestRegistry /\ NeedsDB(last')) =>
            LET log == last'.log
                db == CallsOf(log, "DBService")
            IN  /\ last'.res = "ok"
                /\ Cardinality(db) = 1
                /\ Cardinality(CallsOf(log, "Config")) =
                        (IF "Config" \in DOMAIN instances THEN 0 ELSE 1)
                /\ \A i \in db :
                        /\ log[i].by = "newDB"
                        /\ log[i].args = <<instances'["Config"]>>
                        /\ log[i].val.id = serial'
                        /\ TopEvents(log)[1].val = log[i].val
                        /\ last'.op = "Bind" => last'.fields = <<log[i].val>>
                        /\ last'.op = "Invoke" => log[Len(log)].args = <<log[i].val>>
                /\ "Config" \in DOMAIN instances => instances'["Config"] = instances["Config"]
                /\ "DBService" \notin DOMAIN instances']_vars

\* the second call that requires a DBService built it from the Config the
\* first call cached, without invoking newConfig
C12_Witness ==
    /\ TestRegistry
    /\ NeedsDB(last)
    /\ last.res = "ok"
    /\ serial = 3
    /\ CallsOf(last.log, "Config") = {}
    /\ \E i \in CallsOf(last.log, "DBService") :
            last.log[i].args = <<[ctor |-> "newConfig", id |-> 1]>>

----------------------------------------------------------------------------
(* C13: the parameters of a constructor *)

\* the last place before the frame returning at i that is not inside the frame
FrameStart(log, i) ==
    LET own == IF OwnCall(log, i) THEN i - 1 ELSE i
        out == {j \in 1..(own - 1) : log[j].depth <= log[i].depth}
    IN  IF out = {} THEN 0 ELSE CHOOSE j \in out : \A k \in out : k <= j

\* the returns of the resolve calls that the frame returning at i made for its
\* constructor's parameters, in the order they were made
Params(log, i) ==
    LET Kid(x) == x.e \in {"resolved", "failed"} /\ x.depth = log[i].depth + 1
    IN  SelectSeq(SubSeq(log, FrameStart(log, i) + 1, i - 1), Kid)

\* C13: every resolve(T) of a call either returns the cache's entry for T, or
\* fails with "no provider" for an unregistered T, in both cases resolving
\* nothing, or it resolves the parameter types of T's constructor in
\* declaration order; if parameter k is the first that fails, the resolve of
\* parameter k is the last thing the frame does: no later parameter is
\* resolved, the constructor is not invoked, resolve(T) returns the error of
\* parameter k and the cache has no entry for T; if all resolve, the constructor
\* is invoked with the resolved values in declaration order.
C13_FailFast ==
    last.op \in ResolvingOps =>
        \A i \in 1..Len(last.log) :
            last.log[i].e \in {"resolved", "failed"} =>
                LET log == last.log
                    t == log[i].type
                    kids == Params(log, i)
                    k == Len(kids)
                IN  IF t \notin DOMAIN providers
                         \/ (log[i].e = "resolved" /\ ~OwnCall(log, i))
                    THEN /\ kids = <<>>
                         /\ ~OwnCall(log, i)
                         /\ log[i].e = "resolved" =>
                                (t \in DOMAIN instances /\ log[i].val = instances[t])
                         /\ log[i].e = "failed" => log[i].err = NoProvider(t)
                    ELSE LET in == CtorTable[providers[t].Value].In
                             n == Len(in)
                         IN  /\ k <= n
                             /\ \A j \in 1..k : kids[j].type = in[j]
                             /\ \A j \in 1..(k - 1) : kids[j].e = "resolved"
                             /\ IF k = n /\ (n = 0 \/ kids[n].e = "resolved")
                                THEN /\ OwnCall(log, i)
                                     /\ log[i - 1].by = providers[t].Value
                                     /\ log[i - 1].args = [j \in 1..n |-> kids[j].val]
                                ELSE /\ ~OwnCall(log, i)
                                     /\ kids[k].e = "failed"
                                     /\ log[i - 1] = kids[k]
                                     /\ log[i].e = "failed"
                                     /\ log[i].err = kids[k].err
                                     /\ t \notin DOMAIN instances

\* resolve(Logger) failed at its first parameter, Config, whose constructor
\* returned an error: DBService, which has a provider, was never resolved and
\* newLogger was not invoked
C13_Witness ==
    /\ last.op = "resolve"
    /\ last.arg = "Logger"
    /\ last.res = "err"
    /\ last.err = CtorError("newConfigE")
    /\ "Logger" \in DOMAIN providers
    /\ "DBService" \in DOMAIN providers
    /\ Len(Params(last.log, Len(last.log))) = 1
    /\ \A i \in 1..Len(last.log) : last.log[i].type # "DBService"
    /\ CallsOf(last.log, "Logger") = {}

----------------------------------------------------------------------------
(* C14: cycles *)

\* the types that resolve(t) goes on to resolve, given the providers and the
\* cache: the parameter types of t's constructor, none if t is cached or has
\* no provider
Requires(prov, inst, t) ==
    IF t \in DOMAIN prov /\ t \notin DOMAIN inst
    THEN {CtorTable[prov[t].Value].In[i] : i \in 1..Len(CtorTable[prov[t].Value].In)}
    ELSE {}

RECURSIVE Closure(_, _, _)

\* the types reachable from the set S in zero or more steps
Closure(prov, inst, S) ==
    LET S2 == S \cup UNION {Requires(prov, inst, u) : u \in S}
    IN  IF S2 = S THEN S ELSE Closure(prov, inst, S2)

\* t requires its own type, directly or transitively
OnCycle(prov, inst, t) == t \in Closure(prov, inst, Requires(prov, inst, t))

\* a cycle is reachable from t
CycleFrom(prov, inst, t) == \E u \in Closure(prov, inst, {t}) : OnCycle(prov, inst, u)

RECURSIVE FirstChainLoops(_, _, _, _)

\* following the first parameter of each constructor from t, through types
\* that have a provider and no cache entry, comes back to a type already met
FirstChainLoops(prov, inst, t, seen) ==
    IF t \notin DOMAIN prov \/ t \in DOMAIN inst
    THEN FALSE
    ELSE IF t \in seen
    THEN TRUE
    ELSE IF CtorTable[prov[t].Value].In = <<>>
    THEN FALSE
    ELSE FirstChainLoops(prov, inst, CtorTable[prov[t].Value].In[1], seen \cup {t})

\* C14 as stated: whenever the provider of T requires T's own type, directly
\* or transitively, resolve(T) does not return; whenever no cycle of providers
\* is reachable from T, resolve(T) returns.
C14_AsStated ==
    [][last'.op = "resolve" =>
        /\ OnCycle(providers, EmptyMap, last'.arg) => last'.res = "overflow"
        /\ ~CycleFrom(providers, EmptyMap, last'.arg) => last'.res \in {"ok", "err"}]_vars

\* C14 as amended: resolve(T) does not return when the chain of first
\* parameters from T, through types that have a provider and no cache entry,
\* comes back to a type of the chain; a cache entry for a type of a cycle cuts
\* the cycle. resolve(T) returns a value or an error whenever no cycle is
\* reachable from T through the providers of the types that have no cache
\* entry; a resolve that does not return has invoked no constructor of a type
\* on the cycle.
C14_NoCycleDetection ==
    [][last'.op = "resolve" =>
        /\ FirstChainLoops(providers, instances, last'.arg, {}) => last'.res = "overflow"
        /\ ~CycleFrom(providers, instances, last'.arg) => last'.res \in {"ok", "err"}
        /\ last'.res = "overflow" =>
                /\ CycleFrom(providers, instances, last'.arg)
                /\ last'.val = NoValue
                /\ last'.err = NoError
                /\ \A i \in 1..Len(last'.log) :
                        last'.log[i].e = "call" =>
                            ~OnCycle(providers, instances, last'.log[i].type)]_vars

\* resolve(Logger) did not return: its first parameter, Config, is built from
\* a DBService, which is built from a Config
C14_Witness ==
    /\ last.op = "resolve"
    /\ last.arg = "Logger"
    /\ last.res = "overflow"
    /\ providers["Config"].Value = "newConfigDB"
    /\ providers["DBService"].Value = "newDB"

----------------------------------------------------------------------------
(* C15: the outputs of the function Invoke calls *)

\* C15: when every parameter of fn resolves, Invoke calls fn once and returns
\* nil, whatever fn returns; an error Invoke returns is "invoke expects a
\* function", for a value that is no function, or the error of the resolve of
\* one of fn's parameters (no provider, or the error a constructor returned),
\* and fn has not been called then.
C15_InvokeOutputs ==
    last.op = "Invoke" =>
        LET f == FnTable[last.arg]
            log == last.log
            top == TopEvents(log)
            fnAt == {i \in 1..Len(log) : log[i].e = "fn"}
        IN  /\ (/\ f.Kind = "Func"
                /\ Len(top) = Len(f.In)
                /\ \A i \in 1..Len(top) : top[i].e = "resolved") =>
                    /\ Cardinality(fnAt) = 1
                    /\ last.res = "ok"
                    /\ last.err = NoError
            /\ last.res = "err" =>
                    /\ fnAt = {}
                    /\ IF f.Kind # "Func"
                       THEN last.err = InvokeExpectsFunction
                       ELSE /\ top # <<>>
                            /\ top[Len(top)].e = "failed"
                            /\ last.err = top[Len(top)].err
                            /\ \/ /\ last.err.kind = "no provider for type"
                                  /\ last.err.of \in Types \ DOMAIN providers
                               \/ /\ last.err.kind = "constructor error"
                                  /\ \E i \in 1..Len(log) :
                                        /\ log[i].e = "call"
                                        /\ log[i].err = last.err
                                        /\ last.err.of = log[i].by

\* Invoke returned nil after calling a function that returned a non-nil error
C15_Witness ==
    /\ last.op = "Invoke"
    /\ last.res = "ok"
    /\ last.err = NoError
    /\ FnTable[last.arg].RetErr
    /\ last.log[Len(last.log)].e = "fn"
    /\ last.log[Len(last.log)].err # NoError

----------------------------------------------------------------------------
(* C17: how often one resolve invokes a constructor *)

RECURSIVE Paths(_, _, _), PathsVia(_, _, _, _)

\* the number of dependency paths from the type `from` to the type t in the
\* (acyclic) graph of the providers, a parameter type counting once for each
\* parameter of that type
Paths(prov, from, t) ==
    IF from = t
    THEN 1
    ELSE IF from \notin DOMAIN prov
    THEN 0
    ELSE PathsVia(prov, CtorTable[prov[from].Value].In, 1, t)

PathsVia(prov, in, i, t) ==
    IF i > Len(in)
    THEN 0
    ELSE Paths(prov, in[i], t) + PathsVia(prov, in, i + 1, t)

\* the parameters of type t of the constructor invocations in the log: the
\* pairs <<i, j>> where the call logged at i has a parameter j of type t
Takers(log, t) ==
    {p \in (1..Len(log)) \X (1..2) :
        /\ log[p[1]].e = "call"
        /\ p[2] <= Len(CtorTable[log[p[1]].by].In)
        /\ CtorTable[log[p[1]].by].In[p[2]] = t}

\* the step is a resolve that starts from an empty cache and returns a value
FreshResolve == instances = EmptyMap /\ last'.op = "resolve" /\ last'.res = "ok"

\* C17 as stated: in a resolve that starts from an empty cache, the
\* constructor of a Transient type is invoked once for every dependency path
\* from the requested type to it, each invocation giving a new instance, and
\* the constructor of a Singleton type that the requested type requires is
\* invoked once, every resolve of the type returning that instance.
C17_AsStated ==
    [][FreshResolve =>
        \A t \in DOMAIN providers :
            LET log == last'.log
                n == Paths(providers, last'.arg, t)
            IN  IF IsTransient(providers, t)
                THEN Cardinality(CallsOf(log, t)) = n
                ELSE /\ Cardinality(CallsOf(log, t)) = (IF n > 0 THEN 1 ELSE 0)
                     /\ \A i \in FrameEnds(log, t) : log[i].val = instances'[t]]_vars

\* C17 as amended: in a resolve that starts from an empty cache, the
\* constructor of a Transient type is invoked once for each parameter of that
\* type of each constructor invocation made, and once more if it is the
\* requested type, every parameter getting an instance of its own; that is once
\* for every dependency path from the requested type, unless the type lies
\* below a Singleton type that several paths reach: what a Singleton requires is
\* built once, with the Singleton. The constructor of a Singleton type that the
\* requested type requires is invoked once, and every parameter of that type
\* gets that one instance.
C17_PerOccurrence ==
    [][FreshResolve =>
        \A t \in DOMAIN providers :
            LET log == last'.log
                n == Paths(providers, last'.arg, t)
                takers == Takers(log, t)
                calls == CallsOf(log, t)
                Arg(p) == log[p[1]].args[p[2]]
            IN  IF IsTransient(providers, t)
                THEN /\ Cardinality(calls) =
                            Cardinality(takers) + (IF last'.arg = t THEN 1 ELSE 0)
                     /\ \A p \in takers : \E i \in calls : log[i].val = Arg(p)
                     /\ \A p, q \in takers : p # q => Arg(p) # Arg(q)
                     /\ Cardinality(calls) <= n
                     /\ (\A u \in DOMAIN providers :
                            (IsSingleton(providers, u) /\ u # t
                                /\ Paths(providers, last'.arg, u) > 1)
                            => Paths(providers, u, t) = 0)
                        => Cardinality(calls) = n
                     /\ t \notin DOMAIN instances'
                ELSE /\ Cardinality(calls) = (IF n > 0 THEN 1 ELSE 0)
                     /\ n > 0 =>
                            /\ t \in DOMAIN instances'
                            /\ \A i \in calls : log[i].val = instances'[t]
                            /\ \A i \in FrameEnds(log, t) : log[i].val = instances'[t]
                            /\ \A p \in takers : Arg(p) = instances'[t]]_vars

\* resolve(Logger) built the Transient Config twice, once for newLogger and
\* once for newDB, in four constructor invocations
C17_Witness ==
    /\ last.op = "resolve"
    /\ last.arg = "Logger"
    /\ last.res = "ok"
    /\ serial = 4
    /\ IsTransient(providers, "Config")
    /\ Cardinality(CallsOf(last.log, "Config")) = 2
    /\ Cardinality(CallsOf(last.log, "DBService")) = 1
    /\ \E i \in CallsOf(last.log, "Logger"), j \in CallsOf(last.log, "DBService") :
            last.log[i].args[1] # last.log[j].args[1]

----------------------------------------------------------------------------
(* C18: configuration keys of the same produced type *)

\* both calls are Get calls of different configured keys that name the same type
TwoKeys(l1, l2) ==
    /\ l1.op = "Get"
    /\ l2.op = "Get"
    /\ l1.key # l2.key
    /\ l1.key \in DOMAIN configurations
    /\ l2.key \in DOMAIN configurations
    /\ configurations[l1.key] = configurations[l2.key]

\* C18 as stated: a Get of a key that follows a Get of another key configured
\* for the same produced type returns the value that Get returned.
C18_AsStated ==
    [][(TwoKeys(last, last') /\ last.val # NoValue /\ last'.val # NoValue) =>
            last'.val = last.val]_vars

\* C18 as amended: every configured key names the produced type of the
\* constructor it was configured with, and Get resolves that type through the
\* one provider and the one cache entry of the type. No cache entry ever
\* changes; a Get of a key that follows a Get of another key of the same type
\* returns the cache's entry for the type when there is one, invoking nothing,
\* and that entry is the value the earlier Get returned if it returned one: the
\* constructor that built it determines the value seen under both keys,
\* whichever constructor is registered now. With no cache entry (the type was
\* registered again with Transient scope) the later Get invokes the registered
\* constructor and returns a new instance.
C18_KeysAlias ==
    /\ [](\A k \in DOMAIN configurations : configurations[k] \in Types)
    /\ [][/\ \A t \in DOMAIN instances :
                t \in DOMAIN instances' /\ instances'[t] = instances[t]
          /\ (last'.op = "Configure" /\ last'.res = "ok") =>
                \A k \in DOMAIN configurations' :
                    configurations'[k] = configurations'[last'.key] =>
                        providers'[configurations'[k]].Value = last'.arg
          /\ TwoKeys(last, last') =>
                LET t == configurations[last'.key]
                IN  IF t \in DOMAIN instances
                    THEN /\ last'.val = instances[t]
                         /\ CallsOf(last'.log, t) = {}
                         /\ last.val # NoValue => last'.val = last.val
                    ELSE /\ last.val # NoValue => IsTransient(providers, t)
                         /\ last'.val # NoValue =>
                                /\ last'.val # last.val
                                /\ last'.val.ctor = providers[t].Value
                                /\ last'.val.id = serial']_vars

\* both keys name Config; newConfig built the cached Config, newConfigE was
\* configured afterwards, and a Get of the second key returned the cached Config
C18_Witness ==
    /\ last.op = "Get"
    /\ last.key = "DBService"
    /\ configurations = [k \in CfgKeys |-> "Config"]
    /\ "Config" \in DOMAIN instances
    /\ last.val = instances["Config"]
    /\ last.val.ctor = "newConfig"
    /\ providers["Config"].Value = "newConfigE"
    /\ last.log = <<Event("resolved", "Config", "", <<>>, last.val, NoError, 0)>>

----------------------------------------------------------------------------
(* C16: concurrent first resolution of a Singleton type *)

\* g and h are two goroutines whose resolve of the same type, of Singleton
\* scope, has returned a value
BothResolved(g, h) ==
    /\ g # h
    /\ goroutines[g].status = "done"
    /\ goroutines[h].status = "done"
    /\ goroutines[g].t = goroutines[h].t
    /\ IsSingleton(providers, goroutines[g].t)
    /\ goroutines[g].err = NoError
    /\ goroutines[h].err = NoError

\* C16: two goroutines whose resolve(T) of a Singleton type T both returned
\* got different instances exactly when both cache lookups for T found nothing,
\* that is when both passed the lookup before either stored its result; each
\* of them then returned an instance its own invocation of T's constructor
\* built, and the cache keeps one of the two. When one resolve was called after
\* the other had returned (sequential use), its lookup found the entry and both
\* returned the same instance.
C16_Race ==
    \A g, h \in Goroutines :
        BothResolved(g, h) =>
            LET t == goroutines[g].t
                a == goroutines[g]
                b == goroutines[h]
            IN  /\ (a.val # b.val) <=> (t \in a.missed /\ t \in b.missed)
                /\ (t \in a.missed /\ t \in b.missed) =>
                        /\ a.val.ctor = providers[t].Value
                        /\ b.val.ctor = providers[t].Value
                        /\ a.val.id # b.val.id
                        /\ serial >= 2
                /\ t \in DOMAIN instances
                /\ instances[t] \in {a.val, b.val}
                /\ g \in b.after => (t \notin b.missed /\ b.val = a.val)

\* both goroutines resolved the Singleton type Config and returned different
\* instances
C16_Witness ==
    /\ BothResolved(1, 2)
    /\ goroutines[1].t = "Config"
    /\ goroutines[1].val # goroutines[2].val
    /\ goroutines[1].after = {}
    /\ goroutines[2].after = {}

====
